---- MODULE Spec2Model ----
(***************************************************************************)
(* Room / session state machine of the dodge relay server (src/server.js). *)
(*                                                                         *)
(* One action per inbound message kind, one for the socket close handler   *)
(* and one for the firing of a level-advance timer.  Every handler runs to *)
(* completion before the next event is taken (single-threaded event loop), *)
(* so each handler is one atomic action.                                   *)
(*                                                                         *)
(* Player names are strings; ids built by the join handler are built with  *)
(* string concatenation exactly as the code does.  Colours are never sent  *)
(* by the modelled clients, so every player carries the handler's default. *)
(*                                                                         *)
(* sent holds what the last handler wrote to the sockets.  levelCalls and  *)
(* the room / level / started fields of a pending timer are history: the   *)
(* program keeps none of them, the properties below are stated with them.  *)
(*                                                                         *)
(* Three specifications share the actions: Spec (the server from its       *)
(* start, two clients, one room code), SpecRooms (one client, two room     *)
(* codes) and SpecLate (from level 20 of a running match).                 *)
(***************************************************************************)
EXTENDS Integers, Sequences, FiniteSets, TLC

\* ------------------------------------------------------------------ bounds
NumConns == 2      \* connections that are ever accepted
MaxEntries == 2    \* joins are offered only while a room has fewer entries
MaxTimers == 2     \* pending level-advance timers
MaxWins == 1       \* a level win is credited only below this count
LevelCap == 2      \* a timer advances a room only this close to level 1 / the last level

\* ------------------------------------------------------- program constants
MaxPlayers == 10   \* join_room: "Room is full" at this many entries
LastLevel == 20    \* advanceLevel: game over once current_level exceeds it
SpawnX == 360
SpawnY == 400

Conns == 1 .. NumConns

\* null for playerRoomCode / playerId (both are only tested for truthiness)
Null == ""

\* generateRoomCode draws: four characters of its alphabet
OneCode == {"AAAA"}
TwoCodes == {"AAAA", "AAAB"}

\* String.prototype.toUpperCase on the room codes clients send
toUpperCase(s) ==
    CASE s = "aaaa" -> "AAAA"
      [] s = "aaab" -> "AAAB"
      [] OTHER -> s

\* inputs ---------------------------------------------------------------
\* msg.player_name: every client asks for the same name, so that joins
\* collide.  (The handlers below take "" for a missing / falsy name.)
NameInputs == {"A"}
\* JSON values of a message field, by JSON type and text
Text(s) == [json |-> "string", text |-> s]
Number(s) == [json |-> "number", text |-> s]
\* msg.room_code: codes in either case, a code of no room, the empty string,
\* and numbers (one truthy, one falsy)
CodeInputs == {Text("AAAA"), Text("aaaa"), Text("ZZZZ"), Text(""), Number("17"), Number("0")}

\* (msg.room_code || '')
OrEmpty(v) ==
    IF v.text = "" \/ (v.json = "number" /\ v.text = "0") THEN Text("") ELSE v

\* (msg.room_code || '') is no string: calling its toUpperCase throws
NoToUpperCase(v) == OrEmpty(v).json # "string"

\* const code = (msg.room_code || '').toUpperCase(), where the call returns
CodeOf(v) == toUpperCase(OrEmpty(v).text)
\* Math.floor(Math.random() * 999) draws
RandomDraws == {1, 7}
\* msg.x, msg.y
XInputs == {10}
YInputs == {5}

VARIABLES
    rooms,      \* the registry: room code -> room
    conn,       \* per connection: socket state, playerRoomCode, playerId
    timers,     \* pending setTimeout callbacks, in firing order
    crashed,    \* an exception escaped a handler (the process is gone)
    sent,       \* the messages written by the last handler, in order
    levelCalls  \* history: per room, player_finished calls of the current level

vars == <<rooms, conn, timers, crashed, sent, levelCalls>>

\* ------------------------------------------------------------- helpers
\* room.players is an object: an insertion-ordered map, modelled as the
\* sequence of its entries
Keys(players) == { players[i].id : i \in 1 .. Len(players) }
Has(players, id) == id \in Keys(players)
IndexOf(players, id) == CHOOSE i \in 1 .. Len(players) : players[i].id = id
Entry(players, id) == players[IndexOf(players, id)]
\* delete room.players[id]
Delete(players, id) == SelectSeq(players, LAMBDA p : p.id # id)
\* the key whose write is taken by the setter of Object.prototype: it
\* replaces the prototype of the object (or, for a value that is no object,
\* does nothing) and gives the object no own key
ProtoKey == "__proto__"

\* obj[k] = v on a plain object used as a map
Put(f, k, v) ==
    IF k = ProtoKey THEN f
    ELSE [x \in (DOMAIN f) \cup {k} |-> IF x = k THEN v ELSE f[x]]
\* delete obj[k]
Drop(f, k) == [x \in (DOMAIN f) \ {k} |-> f[x]]
EmptyMap == [x \in {} |-> 0]

\* players, level_wins and death_placeholders are plain objects ({}): read
\* at a key they do not own, they answer with what their prototype holds
\* there.  Of the strings the clients send here these are "constructor",
\* which reads as the function Object, and "__proto__", which reads as the
\* prototype itself; both are truthy.  (What a replaced prototype answers at
\* further keys is read only through strings no client sends here.)
Inherited == {"constructor", ProtoKey}

\* what the value inherited at k turns into under + 1: String(Object), or
\* String(Object.prototype)
ObjectText(k) ==
    IF k = ProtoKey THEN "[object Object]" ELSE "function Object() { [native code] }"

\* obj[k] is truthy, for an object whose own values are objects
Answers(keys, k) == k \in keys \/ k \in Inherited

\* sockets whose readyState is OPEN
OpenConns == { c \in DOMAIN conn : conn[c].state = "open" }

\* sendTo: written only if the socket is open
sendTo(open, ws, m) == IF ws \in open THEN << [to |-> ws, msg |-> m] >> ELSE << >>

RECURSIVE SendEach(_, _, _, _)
\* for (const [id, p] of Object.entries(players)) sendTo(p.ws, M[id])
SendEach(open, players, M, i) ==
    IF i > Len(players) THEN << >>
    ELSE sendTo(open, players[i].ws, M[players[i].id]) \o SendEach(open, players, M, i + 1)

RECURSIVE BroadcastFrom(_, _, _, _, _)
BroadcastFrom(open, players, m, excludeWs, i) ==
    IF i > Len(players) THEN << >>
    ELSE (IF players[i].ws # excludeWs THEN sendTo(open, players[i].ws, m) ELSE << >>)
         \o BroadcastFrom(open, players, m, excludeWs, i + 1)

\* broadcastToRoom(roomCode, message, excludeWs); excludeWs = 0 excludes nobody
broadcastToRoom(open, players, m, excludeWs) == BroadcastFrom(open, players, m, excludeWs, 1)

\* the session is bound to a room that exists:
\* (!playerRoomCode || !rooms[playerRoomCode]) is false
Bound(c) == conn[c].playerRoomCode # Null /\ conn[c].playerRoomCode \in DOMAIN rooms

\* the handlers run only while the process is up and the socket is open
Receives(c) == ~crashed /\ conn[c].state = "open"

\* a handler that returns without effect
Ignore ==
    /\ sent' = << >>
    /\ UNCHANGED <<rooms, conn, timers, crashed, levelCalls>>

\* a handler that throws before any effect: the exception is uncaught
Throw ==
    /\ crashed' = TRUE
    /\ sent' = << >>
    /\ UNCHANGED <<rooms, conn, timers, levelCalls>>

Init ==
    /\ rooms = EmptyMap
    /\ conn = [c \in Conns |-> [state |-> "idle", playerRoomCode |-> Null, playerId |-> Null]]
    /\ timers = << >>
    /\ crashed = FALSE
    /\ sent = << >>
    /\ levelCalls = EmptyMap

\* wss.on('connection')
Connect(c) ==
    /\ ~crashed
    /\ conn[c].state = "idle"
    /\ conn' = [conn EXCEPT ![c].state = "open"]
    /\ sent' = << >>
    /\ UNCHANGED <<rooms, timers, crashed, levelCalls>>

\* the player record both create_room and join_room store
NewPlayer(ws, id, color) ==
    [id |-> id, ws |-> ws, name |-> id, ready |-> FALSE, alive |-> TRUE,
     position |-> [x |-> SpawnX, y |-> SpawnY], color |-> color]

\* the room create_room stores
NewRoom(ws, playerId) ==
    [host |-> playerId,
     players |-> IF playerId = ProtoKey THEN << >>
                 ELSE << NewPlayer(ws, playerId, "#4dff7c") >>,
     started |-> FALSE,
     current_level |-> 1,
     level_wins |-> EmptyMap,
     ready_players |-> {},
     finished_players |-> {},
     death_placeholders |-> EmptyMap,
     placeholders_proto |-> {}]

\* case 'create_room'
\* (code is the draw of generateRoomCode the do-while loop accepts)
CreateRoom(c, name, code) ==
    /\ Receives(c)
    /\ code \notin DOMAIN rooms
    /\ LET playerId == IF name = "" THEN "Player1" ELSE name IN
         /\ conn' = [conn EXCEPT ![c].playerId = playerId, ![c].playerRoomCode = code]
         /\ rooms' = Put(rooms, code, NewRoom(c, playerId))
         /\ levelCalls' = Put(levelCalls, code, "none")
         /\ sent' = sendTo(OpenConns, c, [type |-> "room_created", room_code |-> code,
                                          player_id |-> playerId, is_host |-> TRUE])
         /\ UNCHANGED <<timers, crashed>>

RECURSIVE UniqueName(_, _, _, _)
\* while (players[playerId]) { playerId = baseName + counter; counter++ }
UniqueName(players, playerId, baseName, counter) ==
    IF Answers(Keys(players), playerId)
    THEN UniqueName(players, baseName \o ToString(counter), baseName, counter + 1)
    ELSE playerId

\* the roster sent to a joining player
Roster(players) ==
    [id \in Keys(players) |->
        [name |-> Entry(players, id).name, ready |-> Entry(players, id).ready,
         color |-> Entry(players, id).color]]

\* the session's playerId after a join_room that is answered with an error
IdAfterJoinError(requested, old) == requested

\* join_room answered with an error: the reply, and playerId already assigned
JoinError(c, requested, text) ==
    /\ conn' = [conn EXCEPT ![c].playerId = IdAfterJoinError(requested, conn[c].playerId)]
    /\ sent' = sendTo(OpenConns, c, [type |-> "error", message |-> text])
    /\ UNCHANGED <<rooms, timers, crashed, levelCalls>>

\* (a capacity test that lets the eleventh player in)
RoomFullAbove(players) == Len(players) > MaxPlayers

\* join_room: the room already holds its ten players
RoomFull(players) == Len(players) >= MaxPlayers

\* room sizes the model offers a join at: the first entries of a room and
\* the last ones below its capacity
EntriesInScope(n) ==
    \/ n < MaxEntries
    \/ n >= MaxPlayers - MaxEntries

\* case 'join_room'; a room code that is no string makes line 98 throw,
\* before playerId is assigned
JoinRoom(c, codeIn, name, r) ==
    /\ Receives(c)
    /\ LET code == CodeOf(codeIn)
           requested == IF name = "" THEN "Player" \o ToString(r) ELSE name
       IN
       IF NoToUpperCase(codeIn) THEN Throw
       ELSE IF code \notin DOMAIN rooms THEN JoinError(c, requested, "Room not found")
       ELSE IF rooms[code].started THEN JoinError(c, requested, "Game already started")
       ELSE IF RoomFull(rooms[code].players) THEN JoinError(c, requested, "Room is full")
       ELSE
         LET room == rooms[code]
             playerId == UniqueName(room.players, requested, requested, 1)
             players2 == Append(room.players, NewPlayer(c, playerId, "#ff6b6b"))
         IN
         /\ EntriesInScope(Len(room.players))
         /\ conn' = [conn EXCEPT ![c].playerId = playerId, ![c].playerRoomCode = code]
         /\ rooms' = [rooms EXCEPT ![code].players = players2]
         /\ sent' = sendTo(OpenConns, c,
                       [type |-> "room_joined", room_code |-> code, player_id |-> playerId,
                        is_host |-> FALSE, players |-> Roster(players2), host |-> room.host])
                    \o broadcastToRoom(OpenConns, players2,
                       [type |-> "player_joined", player_id |-> playerId,
                        player_name |-> playerId, color |-> "#ff6b6b"], c)
         /\ UNCHANGED <<timers, crashed, levelCalls>>

\* case 'player_ready': the room after the update
ReadyRoom(room, playerId, ready) ==
    [room EXCEPT
        !.players = IF Has(@, playerId)
                    THEN [@ EXCEPT ![IndexOf(@, playerId)].ready = ready]
                    ELSE @,
        !.ready_players = IF ready THEN @ \cup {playerId} ELSE @ \ {playerId}]

\* case 'player_ready'
PlayerReady(c, ready) ==
    /\ Receives(c)
    /\ IF ~Bound(c) THEN Ignore
       ELSE LET code == conn[c].playerRoomCode
                playerId == conn[c].playerId
                room == rooms[code]
            IN
            IF ~Answers(Keys(room.players), playerId) THEN Throw
            ELSE LET room2 == ReadyRoom(room, playerId, ready) IN
                 /\ rooms' = [rooms EXCEPT ![code] = room2]
                 /\ sent' = broadcastToRoom(OpenConns, room2.players,
                               [type |-> "player_ready_update", player_id |-> playerId,
                                ready |-> ready,
                                ready_count |-> Cardinality(room2.ready_players),
                                total_count |-> Len(room2.players)], 0)
                 /\ UNCHANGED <<conn, timers, crashed, levelCalls>>

\* for (const p of Object.values(room.players)) p.alive = true
AllAlive(players) == [i \in 1 .. Len(players) |-> [players[i] EXCEPT !.alive = TRUE]]

\* (a start that tests only that somebody is ready)
AllReadyAnyone(room) == room.ready_players # {}

\* start_game: the "all players ready" test passes
AllReady(room) == ~(Cardinality(room.ready_players) < Len(room.players))

\* start_game: only the host may start
IsHost(room, playerId) == playerId = room.host

\* start_game: the room after a successful start
StartRoom(room) ==
    [room EXCEPT
        !.started = TRUE,
        !.current_level = 1,
        !.finished_players = {},
        !.death_placeholders = EmptyMap,
        !.placeholders_proto = {},
        !.players = AllAlive(@),
        !.level_wins = [id \in (DOMAIN @) \cup (Keys(room.players) \ Inherited) |->
                           IF id \in DOMAIN @ THEN @[id] ELSE 0]]

\* the roster game_start carries
PlayerList(players) ==
    [id \in Keys(players) |->
        [name |-> Entry(players, id).name, color |-> Entry(players, id).color]]

\* case 'start_game'
StartGame(c) ==
    /\ Receives(c)
    /\ IF ~Bound(c) THEN Ignore
       ELSE LET code == conn[c].playerRoomCode
                room == rooms[code]
            IN
            IF ~IsHost(room, conn[c].playerId) THEN Ignore
            ELSE IF ~AllReady(room) THEN
                 /\ sent' = sendTo(OpenConns, c,
                               [type |-> "error", message |-> "Not all players are ready"])
                 /\ UNCHANGED <<rooms, conn, timers, crashed, levelCalls>>
            ELSE LET room2 == StartRoom(room)
                     M == [id \in Keys(room2.players) |->
                             [type |-> "game_start", level |-> 1,
                              players |-> PlayerList(room2.players), your_id |-> id]]
                 IN
                 /\ rooms' = [rooms EXCEPT ![code] = room2]
                 /\ levelCalls' = [levelCalls EXCEPT ![code] = "fresh"]
                 /\ sent' = SendEach(OpenConns, room2.players, M, 1)
                 /\ UNCHANGED <<conn, timers, crashed>>

\* player_position / lobby_position: relayed to everybody else
Relay(c, type, x, y) ==
    /\ Receives(c)
    /\ IF ~Bound(c) THEN Ignore
       ELSE /\ sent' = broadcastToRoom(OpenConns, rooms[conn[c].playerRoomCode].players,
                          [type |-> type, player_id |-> conn[c].playerId, x |-> x, y |-> y], c)
            /\ UNCHANGED <<rooms, conn, timers, crashed, levelCalls>>

\* case 'player_position'
PlayerPosition(c, x, y) == Relay(c, "player_moved", x, y)

\* case 'lobby_position'
LobbyPosition(c, x, y) == Relay(c, "lobby_player_moved", x, y)

\* case 'player_died': the room after the update
DiedRoom(room, playerId, x, y) ==
    [room EXCEPT
        !.players = IF Has(@, playerId)
                    THEN [@ EXCEPT ![IndexOf(@, playerId)].alive = FALSE]
                    ELSE @,
        !.death_placeholders = Put(@, playerId, [x |-> x, y |-> y]),
        !.placeholders_proto = IF playerId = ProtoKey THEN {[x |-> x, y |-> y]} ELSE @]

\* case 'player_died'
PlayerDied(c, x, y) ==
    /\ Receives(c)
    /\ IF ~Bound(c) THEN Ignore
       ELSE LET code == conn[c].playerRoomCode
                playerId == conn[c].playerId
                room == rooms[code]
            IN
            IF ~Answers(Keys(room.players), playerId) THEN Throw
            ELSE LET room2 == DiedRoom(room, playerId, x, y) IN
                 /\ rooms' = [rooms EXCEPT ![code] = room2]
                 /\ sent' = broadcastToRoom(OpenConns, room2.players,
                               [type |-> "player_died", player_id |-> playerId,
                                x |-> x, y |-> y], c)
                            \o sendTo(OpenConns, c, [type |-> "you_died", x |-> x, y |-> y])
                 /\ UNCHANGED <<conn, timers, crashed, levelCalls>>

\* case 'revive_player': the room after a revive of targetId
RevivedRoom(room, targetId) ==
    [room EXCEPT
        !.players = IF Has(@, targetId)
                    THEN [@ EXCEPT ![IndexOf(@, targetId)].alive = TRUE]
                    ELSE @,
        !.death_placeholders = Drop(@, targetId)]

\* revive_player: the message.  pos is the placeholder the room owns for
\* the target; for the target "__proto__" it is the prototype of
\* death_placeholders, which holds a position once a session of that id has
\* died; otherwise pos.x and pos.y are undefined and left out of the JSON text
RevivedMessage(room, targetId, reviverId) ==
    IF targetId \in DOMAIN room.death_placeholders
    THEN [type |-> "player_revived", revived_id |-> targetId, reviver_id |-> reviverId,
          x |-> room.death_placeholders[targetId].x,
          y |-> room.death_placeholders[targetId].y]
    ELSE IF targetId = ProtoKey /\ room.placeholders_proto # {}
    THEN LET pos == CHOOSE q \in room.placeholders_proto : TRUE IN
         [type |-> "player_revived", revived_id |-> targetId, reviver_id |-> reviverId,
          x |-> pos.x, y |-> pos.y]
    ELSE [type |-> "player_revived", revived_id |-> targetId, reviver_id |-> reviverId]

\* case 'revive_player'
RevivePlayer(c, targetId) ==
    /\ Receives(c)
    /\ IF ~Bound(c) THEN Ignore
       ELSE LET code == conn[c].playerRoomCode
                room == rooms[code]
            IN
            IF ~Answers(DOMAIN room.death_placeholders, targetId) THEN Ignore
            ELSE IF ~Answers(Keys(room.players), targetId) THEN Throw
            ELSE LET room2 == RevivedRoom(room, targetId)
                     M == [id \in Keys(room2.players) |->
                             RevivedMessage(room, targetId, conn[c].playerId)]
                 IN
                 /\ rooms' = [rooms EXCEPT ![code] = room2]
                 /\ sent' = SendEach(OpenConns, room2.players, M, 1)
                 /\ UNCHANGED <<conn, timers, crashed, levelCalls>>

\* levels the model advances from: the first ones of a match and the
\* ones around its end
LevelInScope(level) ==
    \/ level < LevelCap
    \/ level >= LastLevel /\ level < LastLevel + LevelCap

\* win counts the model credits from: the first ones and the ones of
\* a player who won every level so far of a match in its last level
WinsInScope(wins) ==
    \/ wins < MaxWins
    \/ wins >= LastLevel - 1 /\ wins < LastLevel - 1 + MaxWins

\* room.level_wins[id] || 0  (the function Object stands as its text)
WinsOf(room, id) ==
    IF id \in DOMAIN room.level_wins THEN room.level_wins[id]
    ELSE IF id \in Inherited THEN ObjectText(id)
    ELSE 0

\* (room.level_wins[id] || 0) + 1: a sum, or a text with "1" appended when
\* the left side is no number (level_wins never holds a number at a key of
\* Inherited: start_game skips it, player_finished stores a text)
WinsPlusOne(room, id) ==
    IF id \in Inherited THEN WinsOf(room, id) \o "1" ELSE WinsOf(room, id) + 1

\* credits the model offers: by the win count, and the first one at a key
\* of Inherited
CreditInScope(room, id) ==
    IF id \in Inherited THEN id \notin DOMAIN room.level_wins
    ELSE WinsInScope(WinsOf(room, id))

\* player_finished: "first player to finish", tested after the add
IsFirst(finished) == Cardinality(finished) = 1

\* case 'player_finished': the room after the add and the credit
FinishedRoom(room, playerId) ==
    LET finished == room.finished_players \cup {playerId} IN
    [room EXCEPT
        !.finished_players = finished,
        !.level_wins = IF IsFirst(finished)
                       THEN Put(@, playerId, WinsPlusOne(room, playerId))
                       ELSE @]

\* the callback handed to setTimeout: it belongs to connection c, whose
\* playerRoomCode it reads when it runs.  room, level and started record
\* where the callback was scheduled (history only, the callback holds none).
NewTimer(c, code, room) ==
    [owner |-> c, room |-> code, level |-> room.current_level, started |-> room.started]

\* case 'player_finished'
PlayerFinished(c) ==
    /\ Receives(c)
    /\ IF ~Bound(c) THEN Ignore
       ELSE LET code == conn[c].playerRoomCode
                playerId == conn[c].playerId
                room == rooms[code]
                room2 == FinishedRoom(room, playerId)
                first == IsFirst(room2.finished_players)
                M == [id \in Keys(room2.players) |->
                        [type |-> "player_finished", player_id |-> playerId,
                         is_first |-> first,
                         finished_count |-> Cardinality(room2.finished_players),
                         total_count |-> Len(room2.players),
                         level_wins |-> room2.level_wins]]
            IN
            /\ first => Len(timers) < MaxTimers /\ CreditInScope(room, playerId)
            /\ rooms' = [rooms EXCEPT ![code] = room2]
            /\ sent' = SendEach(OpenConns, room2.players, M, 1)
            /\ timers' = IF first THEN Append(timers, NewTimer(c, code, room)) ELSE timers
            /\ levelCalls' = [levelCalls EXCEPT ![code] = IF @ = "none" THEN @ ELSE "called"]
            /\ UNCHANGED <<conn, crashed>>

\* (a close handler that never reassigns the host)
HostAfterLeaveKept(room, playerId) == room.host

\* close handler: the host after playerId left a room that is not empty
HostAfterLeave(room, playerId) ==
    IF room.host = playerId THEN room.players[1].id ELSE room.host

\* (a close handler that forgets ready_players.delete)
ReadyAfterLeaveKept(ready, playerId) == ready

\* close handler: the ready set after playerId left
ReadyAfterLeave(ready, playerId) == ready \ {playerId}

\* close handler: the room after the four deletes
LeftRoom(room, playerId) ==
    [room EXCEPT
        !.players = Delete(@, playerId),
        !.ready_players = ReadyAfterLeave(@, playerId),
        !.finished_players = @ \ {playerId},
        !.death_placeholders = Drop(@, playerId)]

\* ws.on('close')
Close(c) ==
    /\ ~crashed
    /\ conn[c].state = "open"
    /\ conn' = [conn EXCEPT ![c].state = "closed"]
    /\ UNCHANGED <<timers, crashed>>
    /\ IF ~Bound(c) THEN sent' = << >> /\ UNCHANGED <<rooms, levelCalls>>
       ELSE LET code == conn[c].playerRoomCode
                playerId == conn[c].playerId
                room == rooms[code]
                room2 == LeftRoom(room, playerId)
                open == OpenConns \ {c}
                left == broadcastToRoom(open, room2.players,
                            [type |-> "player_left", player_id |-> playerId], 0)
            IN
            IF Len(room2.players) = 0 THEN
                /\ rooms' = Drop(rooms, code)
                /\ levelCalls' = Drop(levelCalls, code)
                /\ sent' = left
            ELSE
                LET room3 == [room2 EXCEPT !.host = HostAfterLeave(room2, playerId)]
                    M == [id \in Keys(room3.players) |->
                            [type |-> "new_host", host_id |-> room3.host]]
                IN
                /\ rooms' = [rooms EXCEPT ![code] = room3]
                /\ sent' = left \o (IF room.host = playerId
                                    THEN SendEach(open, room3.players, M, 1) ELSE << >>)
                /\ UNCHANGED levelCalls

\* advanceLevel: the match is over once the new level exceeds the last one
GameOver(level) == level > LastLevel

\* (an advance that starts over when the match ends)
advanceLevelResets(room) ==
    LET level == room.current_level + 1 IN
    [room EXCEPT
        !.current_level = IF GameOver(level) THEN 1 ELSE level,
        !.level_wins = IF GameOver(level) THEN [id \in DOMAIN @ |-> 0] ELSE @,
        !.finished_players = {},
        !.death_placeholders = EmptyMap,
        !.placeholders_proto = {},
        !.players = AllAlive(@),
        !.started = IF GameOver(level) THEN FALSE ELSE @]

\* advanceLevel: the room after the advance
advanceLevel(room) ==
    LET level == room.current_level + 1 IN
    [room EXCEPT
        !.current_level = level,
        !.finished_players = {},
        !.death_placeholders = EmptyMap,
        !.placeholders_proto = {},
        !.players = AllAlive(@),
        !.started = IF GameOver(level) THEN FALSE ELSE @]

\* advanceLevel: game_over or next_level to every player
AdvanceMessages(open, room2) ==
    LET Over == [id \in Keys(room2.players) |->
                    [type |-> "game_over", level_wins |-> room2.level_wins]]
        NextLevel == [id \in Keys(room2.players) |->
                         [type |-> "next_level", level |-> room2.current_level,
                          level_wins |-> room2.level_wins]]
    IN IF GameOver(room2.current_level)
       THEN SendEach(open, room2.players, Over, 1)
       ELSE SendEach(open, room2.players, NextLevel, 1)

\* the room code the timer callback of connection c resolves when it runs
TimerTarget(c, scheduledIn) == conn[c].playerRoomCode

\* the setTimeout callback of player_finished runs (timers of equal delay
\* run in the order they were set)
TimerFire ==
    /\ ~crashed
    /\ timers # << >>
    /\ timers' = Tail(timers)
    /\ UNCHANGED <<conn, crashed>>
    /\ LET code == TimerTarget(Head(timers).owner, Head(timers).room) IN
       IF code \notin DOMAIN rooms THEN sent' = << >> /\ UNCHANGED <<rooms, levelCalls>>
       ELSE LET room2 == advanceLevel(rooms[code]) IN
            /\ LevelInScope(rooms[code].current_level)
            /\ rooms' = [rooms EXCEPT ![code] = room2]
            /\ levelCalls' = [levelCalls EXCEPT ![code] = "fresh"]
            /\ sent' = AdvanceMessages(OpenConns, room2)

\* payloads no case of the switch takes: text that is not JSON, the JSON
\* value null, a JSON value without a type, an object of an unknown type
PayloadInputs == {"text", "null", "17", "{}", "{\"type\":\"dance\"}"}

\* JSON.parse(data) throws
NotJson(payload) == payload = "text"

\* JSON.parse(data) is null, so reading msg.type throws
ParsesToNull(payload) == payload = "null"

\* a payload that is not JSON, or a type the switch does not know, is
\* dropped; the switch on msg.type throws when msg is null
Unknown(c, payload) ==
    /\ Receives(c)
    /\ IF NotJson(payload) THEN Ignore
       ELSE IF ParsesToNull(payload) THEN Throw
       ELSE Ignore

\* msg.target_id
TargetInputs == {"A", "A1", "constructor", "__proto__", "nobody"}

\* every event the server can take, with its inputs drawn from the given sets
NextWith(codes, names) ==
    \/ \E c \in Conns : Connect(c)
    \/ \E c \in Conns, n \in names, code \in codes : CreateRoom(c, n, code)
    \/ \E c \in Conns, ci \in CodeInputs, n \in names, r \in RandomDraws : JoinRoom(c, ci, n, r)
    \/ \E c \in Conns, b \in BOOLEAN : PlayerReady(c, b)
    \/ \E c \in Conns : StartGame(c)
    \/ \E c \in Conns, x \in XInputs, y \in YInputs : PlayerPosition(c, x, y)
    \/ \E c \in Conns, x \in XInputs, y \in YInputs : PlayerDied(c, x, y)
    \/ \E c \in Conns, t \in TargetInputs : RevivePlayer(c, t)
    \/ \E c \in Conns : PlayerFinished(c)
    \/ \E c \in Conns, x \in XInputs, y \in YInputs : LobbyPosition(c, x, y)
    \/ \E c \in Conns, payload \in PayloadInputs : Unknown(c, payload)
    \/ \E c \in Conns : Close(c)
    \/ TimerFire

\* ---------------------------------------------------------------- Spec
\* the server from its start, one room code, every client named "A"
Next == NextWith(OneCode, NameInputs)

Spec == Init /\ [][Next]_vars

\* ------------------------------------------------------------ SpecRooms
\* one client that stays and two room codes: every other connection was
\* closed before it sent anything
InitRooms ==
    /\ rooms = EmptyMap
    /\ conn = [c \in Conns |-> [state |-> IF c = 1 THEN "idle" ELSE "closed",
                                 playerRoomCode |-> Null, playerId |-> Null]]
    /\ timers = << >>
    /\ crashed = FALSE
    /\ sent = << >>
    /\ levelCalls = EmptyMap

NextRooms == NextWith(TwoCodes, NameInputs)

SpecRooms == InitRooms /\ [][NextRooms]_vars

\* ------------------------------------------------------------- SpecLate
\* the last level of a match in room AAAA, created by connection 1 as "A",
\* who finished first in each of the levels 1 .. 19; the last handler that
\* ran was the timer that advanced the room to level 20.  Either "A" plays
\* alone (solo), or connection 2 joined as "A" before the start and became
\* "A1" (duo).
LateRoom(duo) ==
    LET a == [NewPlayer(1, "A", "#4dff7c") EXCEPT !.ready = TRUE]
        a1 == [NewPlayer(2, "A1", "#ff6b6b") EXCEPT !.ready = TRUE]
        ids == IF duo THEN {"A", "A1"} ELSE {"A"}
    IN
    [host |-> "A",
     players |-> IF duo THEN << a, a1 >> ELSE << a >>,
     started |-> TRUE,
     current_level |-> LastLevel,
     level_wins |-> [id \in ids |-> IF id = "A" THEN LastLevel - 1 ELSE 0],
     ready_players |-> ids,
     finished_players |-> {},
     death_placeholders |-> EmptyMap,
     placeholders_proto |-> {}]

LateConn(c, duo) ==
    IF c = 1 THEN [state |-> "open", playerRoomCode |-> "AAAA", playerId |-> "A"]
    ELSE IF c = 2 /\ duo THEN [state |-> "open", playerRoomCode |-> "AAAA", playerId |-> "A1"]
    ELSE [state |-> "idle", playerRoomCode |-> Null, playerId |-> Null]

InitLate ==
    \E duo \in BOOLEAN :
        /\ rooms = [code \in {"AAAA"} |-> LateRoom(duo)]
        /\ conn = [c \in Conns |-> LateConn(c, duo)]
        /\ timers = << >>
        /\ crashed = FALSE
        /\ sent = AdvanceMessages(IF duo THEN {1, 2} ELSE {1}, LateRoom(duo))
        /\ levelCalls = [code \in {"AAAA"} |-> "fresh"]

SpecLate == InitLate /\ [][Next]_vars

\* ------------------------------------------------------------- SpecFull
\* one client that stays (every other connection was closed before it sent
\* anything) and one room code.  The client finds the server as it started,
\* or with a lobby two entries below its capacity: clients that from then on
\* only listen (the connections above NumConns) created room AAAA as "A" and
\* joined it as "A" one by one (becoming "A1", "A2", ...); each of them sent
\* player_ready, the last of them in the last handler that ran.
Listeners == NumConns + 1 .. NumConns + (MaxPlayers - MaxEntries)

ListenerId(c) == IF c = NumConns + 1 THEN "A" ELSE "A" \o ToString(c - NumConns - 1)

FullPlayers ==
    [k \in 1 .. Cardinality(Listeners) |->
        [NewPlayer(NumConns + k, ListenerId(NumConns + k),
                   IF k = 1 THEN "#4dff7c" ELSE "#ff6b6b") EXCEPT !.ready = TRUE]]

FullRoom ==
    [NewRoom(NumConns + 1, "A") EXCEPT
        !.players = FullPlayers,
        !.ready_players = { ListenerId(c) : c \in Listeners }]

FullConn(c) ==
    IF c \in Listeners
    THEN [state |-> "open", playerRoomCode |-> "AAAA", playerId |-> ListenerId(c)]
    ELSE [state |-> IF c = 1 THEN "idle" ELSE "closed",
          playerRoomCode |-> Null, playerId |-> Null]

InitFull ==
    \/ InitRooms
    \/ /\ rooms = [code \in {"AAAA"} |-> FullRoom]
       /\ conn = [c \in Conns \cup Listeners |-> FullConn(c)]
       /\ timers = << >>
       /\ crashed = FALSE
       /\ sent = broadcastToRoom(Listeners, FullPlayers,
                     [type |-> "player_ready_update",
                      player_id |-> ListenerId(NumConns + Cardinality(Listeners)),
                      ready |-> TRUE,
                      ready_count |-> Cardinality(Listeners),
                      total_count |-> Len(FullPlayers)], 0)
       /\ levelCalls = [code \in {"AAAA"} |-> "none"]

SpecFull == InitFull /\ [][Next]_vars

\* ------------------------------------------------------------ SpecNames
\* one client that stays, one room code, and a player name that is an
\* inherited key of the players object.  The client finds the server as it
\* started, or with the lobby of room AAAA, which a client that from then on
\* only listens created as "A" in the last handler that ran.
ObjectNames == {"constructor"}

Listener == NumConns + 1

InitNames ==
    \/ InitRooms
    \/ /\ rooms = [code \in {"AAAA"} |-> NewRoom(Listener, "A")]
       /\ conn = [c \in Conns \cup {Listener} |->
                    IF c = Listener
                    THEN [state |-> "open", playerRoomCode |-> "AAAA", playerId |-> "A"]
                    ELSE [state |-> IF c = 1 THEN "idle" ELSE "closed",
                          playerRoomCode |-> Null, playerId |-> Null]]
       /\ timers = << >>
       /\ crashed = FALSE
       /\ sent = sendTo({Listener}, Listener,
                     [type |-> "room_created", room_code |-> "AAAA",
                      player_id |-> "A", is_host |-> TRUE])
       /\ levelCalls = [code \in {"AAAA"} |-> "none"]

NextNames == NextWith(OneCode, ObjectNames)

SpecNames == InitNames /\ [][NextNames]_vars

\* ------------------------------------------------------------ SpecProto
\* as SpecNames, with the player name whose write replaces the prototype
ProtoNames == {ProtoKey}

NextProto == NextWith(OneCode, ProtoNames)

SpecProto == InitNames /\ [][NextProto]_vars

\* ================================================================ claims
\* rooms present before and after a step
Staying == (DOMAIN rooms) \cap (DOMAIN rooms')

\* some message of the last handler has this type
SentType(type) == \E i \in 1 .. Len(sent) : sent[i].msg.type = type

\* the step is the firing of the oldest pending timer
TimerFires == ~crashed /\ timers # << >> /\ timers' = Tail(timers)

\* ---------------------------------------------------------------- C1
\* C1: within one level of a room the first player_finished call raises
\* exactly one level_wins entry by one, and every later player_finished call
\* of that level raises none.
C1_OneWinPerLevel ==
    [][\A r \in Staying :
         /\ (levelCalls[r] = "fresh" /\ levelCalls'[r] = "called") =>
                \E id \in DOMAIN rooms'[r].level_wins :
                    rooms'[r].level_wins = Put(rooms[r].level_wins, id, WinsOf(rooms[r], id) + 1)
         /\ (levelCalls[r] = "called" /\ levelCalls'[r] = "called") =>
                rooms'[r].level_wins = rooms[r].level_wins
      ]_vars

\* ---------------------------------------------------------------- C2
\* C2: in every reachable state the host of every room of the registry is a
\* key of that room's players.
C2_HostIsPlayer ==
    \A r \in DOMAIN rooms : Has(rooms[r].players, rooms[r].host)

\* the close handler has just handed a room to a new host
C2_Witness ==
    \E r \in DOMAIN rooms : \E i \in 1 .. Len(sent) :
        /\ sent[i].msg.type = "new_host"
        /\ sent[i].msg.host_id = rooms[r].host
        /\ Has(rooms[r].players, rooms[r].host)

\* ---------------------------------------------------------------- C3
\* the game_start messages a start owes: one to every player whose socket is
\* open, carrying level 1 and that player's own id, and nothing else
StartMessagesOwed(players) ==
    /\ \A i \in 1 .. Len(sent') :
          /\ sent'[i].msg.type = "game_start"
          /\ sent'[i].msg.level = 1
          /\ \E k \in 1 .. Len(players) :
                players[k].ws = sent'[i].to /\ players[k].id = sent'[i].msg.your_id
    /\ \A k \in 1 .. Len(players) :
          conn[players[k].ws].state = "open" =>
              \E i \in 1 .. Len(sent') :
                  sent'[i].to = players[k].ws /\ sent'[i].msg.your_id = players[k].id

\* C3: a start_game of a session bound to an existing room starts the game
\* (started, level 1, game_start to every player) exactly when the session's
\* player id is the room's host and as many ids are ready as there are
\* players; from a non-host it changes and sends nothing; from the host with
\* fewer ready ids than players it sends one error to the requester only and
\* changes nothing.
C3_StartIffHostAndAllReady ==
    [][\A c \in Conns :
         (Bound(c) /\ StartGame(c)) =>
            LET code == conn[c].playerRoomCode
                room == rooms[code]
                host == conn[c].playerId = room.host
                ready == Cardinality(room.ready_players)
                count == Len(room.players)
            IN
            /\ (host /\ ready = count) =>
                  /\ rooms'[code].started
                  /\ rooms'[code].current_level = 1
                  /\ StartMessagesOwed(rooms'[code].players)
            /\ ~host =>
                  /\ sent' = << >>
                  /\ UNCHANGED <<rooms, conn, timers, crashed, levelCalls>>
            /\ (host /\ ready < count) =>
                  /\ sent' = << [to |-> c, msg |-> [type |-> "error",
                                   message |-> "Not all players are ready"]] >>
                  /\ UNCHANGED <<rooms, conn, timers, crashed, levelCalls>>
            /\ ~(host /\ ready = count) =>
                  UNCHANGED <<rooms, conn, timers, crashed, levelCalls>>
      ]_vars

\* a room with two players was just started: both got game_start
C3_Witness ==
    \E r \in DOMAIN rooms :
        /\ rooms[r].started
        /\ rooms[r].current_level = 1
        /\ Len(rooms[r].players) = 2
        /\ Len(sent) = 2
        /\ \A i \in 1 .. Len(sent) : sent[i].msg.type = "game_start"

\* ---------------------------------------------------------------- C4
\* C4: in every reachable state the ready set of every room is a subset of
\* the keys of its players (so it is never larger than the player count), and
\* every player_ready_update carries ready_count <= total_count.
C4_ReadyAmongPlayers ==
    /\ \A r \in DOMAIN rooms :
          /\ rooms[r].ready_players \subseteq Keys(rooms[r].players)
          /\ Cardinality(rooms[r].ready_players) <= Len(rooms[r].players)
    /\ \A i \in 1 .. Len(sent) :
          sent[i].msg.type = "player_ready_update" =>
              sent[i].msg.ready_count <= sent[i].msg.total_count

\* a player has just left a room in which somebody else stays ready
C4_Witness ==
    /\ SentType("player_left")
    /\ \E r \in DOMAIN rooms : rooms[r].ready_players # {}

\* ---------------------------------------------------------------- C5
\* C5: in every reachable state every id in finished_players and every key of
\* death_placeholders of a room is a key of that room's players.
C5_FinishedAndDeadArePlayers ==
    \A r \in DOMAIN rooms :
        /\ rooms[r].finished_players \subseteq Keys(rooms[r].players)
        /\ DOMAIN rooms[r].death_placeholders \subseteq Keys(rooms[r].players)

\* ---------------------------------------------------------------- C6
\* C6: the timer set by the first finisher of level L < 20 of a started room
\* fires, and if the room was not deleted, every player then in the room
\* receives next_level carrying L + 1.  (That the timer fires is the
\* runtime's doing; what its firing does is stated here.)
C6_TimerBringsNextLevel ==
    [][(/\ TimerFires
        /\ Head(timers).started
        /\ Head(timers).level < LastLevel
        /\ Head(timers).room \in DOMAIN rooms) =>
           LET t == Head(timers) IN
           /\ t.room \in DOMAIN rooms'
           /\ \A k \in 1 .. Len(rooms'[t.room].players) :
                 conn[rooms'[t.room].players[k].ws].state = "open" =>
                    \E i \in 1 .. Len(sent') :
                        /\ sent'[i].to = rooms'[t.room].players[k].ws
                        /\ sent'[i].msg.type = "next_level"
                        /\ sent'[i].msg.level = t.level + 1
      ]_vars

\* ---------------------------------------------------------------- C7
\* C7: the timer set by a first finisher in room R advances room R and no
\* other room; if R is gone when the timer fires, no room changes and no
\* message is sent.
C7_TimerKeepsToItsRoom ==
    [][TimerFires =>
          LET t == Head(timers) IN
          /\ \A r \in DOMAIN rooms : r # t.room => (r \in DOMAIN rooms' /\ rooms'[r] = rooms[r])
          /\ t.room \notin DOMAIN rooms => (rooms' = rooms /\ sent' = << >>)
      ]_vars

\* ---------------------------------------------------------------- C8
\* C8: in every reachable state current_level of every room is in 1 .. 21.
C8_LevelInRange ==
    \A r \in DOMAIN rooms : rooms[r].current_level \in 1 .. LastLevel + 1

\* ---------------------------------------------------------------- C9
ErrorTexts ==
    {"Room not found", "Game already started", "Room is full", "Not all players are ready"}

\* the last handler answered connection c with an error and sent nothing else
ErrorReplyTo(c) ==
    /\ Len(sent') = 1
    /\ sent'[1].to = c
    /\ sent'[1].msg.type = "error"
    /\ sent'[1].msg.message \in ErrorTexts

\* the (room code, player id) a session is bound to; the player id of a
\* session without a room code is read by no handler
Binding(c) ==
    IF conn[c].playerRoomCode = Null THEN << >>
    ELSE << conn[c].playerRoomCode, conn[c].playerId >>

\* C9: a join_room or start_game answered with one of the four errors leaves
\* the registry, every room and the requester's session binding (room code
\* and player id) as they were.
C9_ErrorsChangeNothing ==
    [][\A c \in Conns :
         ErrorReplyTo(c) =>
            /\ rooms' = rooms
            /\ Binding(c)' = Binding(c)
      ]_vars

\* ---------------------------------------------------------------- C10
\* connection c sent one of the game messages and its handler ran
GameMessage(c) ==
    \/ \E b \in BOOLEAN : PlayerReady(c, b)
    \/ \E x \in XInputs, y \in YInputs : PlayerDied(c, x, y)
    \/ \E x \in XInputs, y \in YInputs : PlayerPosition(c, x, y)
    \/ \E x \in XInputs, y \in YInputs : LobbyPosition(c, x, y)
    \/ \E t \in TargetInputs : RevivePlayer(c, t)
    \/ PlayerFinished(c)

\* the session of c is an existing player of a known room
IsPlayer(c) == Bound(c) /\ Has(rooms[conn[c].playerRoomCode].players, conn[c].playerId)

\* C10: a game message of a session that is not an existing player of a known
\* room is ignored: no state changes, nothing is sent, the server stays up.
C10_NonPlayersAreIgnored ==
    [][\A c \in Conns :
         (~IsPlayer(c) /\ GameMessage(c)) =>
            /\ sent' = << >>
            /\ ~crashed'
            /\ UNCHANGED <<rooms, conn, timers, levelCalls>>
      ]_vars

\* ---------------------------------------------------------------- C11
\* the player entries (room code, id) whose socket is connection c
Owned(c) ==
    UNION { { <<r, rooms[r].players[i].id>> :
                i \in { j \in 1 .. Len(rooms[r].players) : rooms[r].players[j].ws = c } } :
            r \in DOMAIN rooms }

\* C11: in every reachable state no connection owns two player entries (in
\* the same room or in different rooms), and a connection that has closed
\* owns none.
C11_OnePlayerPerOpenConnection ==
    \A c \in Conns :
        /\ Cardinality(Owned(c)) <= 1
        /\ conn[c].state = "closed" => Owned(c) = {}

\* ---------------------------------------------------------------- C12
\* the new_host messages the last handler wrote to connection c
NewHostTo(c) == { i \in 1 .. Len(sent') : sent'[i].to = c /\ sent'[i].msg.type = "new_host" }

\* C12: when the connection that owns a room's host entry closes while
\* entries of other connections remain, the room stays, its host becomes one
\* of the remaining players and every remaining member gets exactly one
\* new_host naming that player; when any other member's connection closes,
\* the host stays as it was and no new_host is sent.
C12_NewHostOnlyWhenHostLeaves ==
    [][\A c \in Conns :
         (Bound(c) /\ Close(c)) =>
            LET code == conn[c].playerRoomCode
                room == rooms[code]
                hostLeaves == /\ Has(room.players, room.host)
                              /\ Entry(room.players, room.host).ws = c
                othersRemain == \E i \in 1 .. Len(room.players) : room.players[i].ws # c
            IN
            /\ (hostLeaves /\ othersRemain) =>
                  /\ code \in DOMAIN rooms'
                  /\ Has(rooms'[code].players, rooms'[code].host)
                  /\ rooms'[code].host # room.host
                  /\ \A k \in 1 .. Len(rooms'[code].players) :
                        LET ws == rooms'[code].players[k].ws IN
                        conn'[ws].state = "open" =>
                            /\ Cardinality(NewHostTo(ws)) = 1
                            /\ \A i \in NewHostTo(ws) :
                                  sent'[i].msg.host_id = rooms'[code].host
            /\ ~hostLeaves =>
                  /\ code \in DOMAIN rooms' => rooms'[code].host = room.host
                  /\ \A d \in Conns : NewHostTo(d) = {}
      ]_vars

\* ---------------------------------------------------------------- C13
\* C13: no step leaves a room with an empty players map in the registry, and
\* the close of the connection that owns the only player entry of a room
\* removes that room from the registry in the same step.
C13_EmptyRoomIsDeleted ==
    [][/\ \A r \in DOMAIN rooms' : Len(rooms'[r].players) > 0
       /\ \A c \in Conns :
            (/\ Bound(c)
             /\ Close(c)
             /\ \A i \in 1 .. Len(rooms[conn[c].playerRoomCode].players) :
                   rooms[conn[c].playerRoomCode].players[i].ws = c) =>
                conn[c].playerRoomCode \notin DOMAIN rooms'
      ]_vars

\* ---------------------------------------------------------------- C19
\* the pending timers that were set in room r during a match
PendingIn(r) == { i \in 1 .. Len(timers) : timers[i].room = r /\ timers[i].started }

\* C19: at most one level-advance timer set during a match is pending for a
\* room at any time, and a timer that raises a room's level was set in the
\* level it ends (no level is advanced by the finishes of another one).
C19_OneTimerPerLevel ==
    [][/\ \A r \in DOMAIN rooms' : Cardinality(PendingIn(r)') <= 1
       /\ TimerFires =>
            LET t == Head(timers) IN
            (/\ t.room \in Staying
             /\ rooms'[t.room].current_level # rooms[t.room].current_level) =>
                /\ rooms[t.room].current_level = t.level
                /\ rooms'[t.room].current_level = t.level + 1
      ]_vars

\* ---------------------------------------------------------------- C20
\* C20: a step that finds and leaves a room not started raises no level_wins
\* entry of it, leaves its current_level alone and sends no next_level and no
\* game_over; and a timer that was set while its room was not started never
\* changes the level of a started room.
C20_NoProgressUnlessStarted ==
    [][/\ \A r \in Staying :
            (~rooms[r].started /\ ~rooms'[r].started) =>
                /\ rooms'[r].level_wins = rooms[r].level_wins
                /\ rooms'[r].current_level = rooms[r].current_level
                /\ \A i \in 1 .. Len(sent') :
                      sent'[i].msg.type \notin {"next_level", "game_over"}
       /\ (TimerFires /\ ~Head(timers).started) =>
            \A r \in Staying :
                rooms[r].started => rooms'[r].current_level = rooms[r].current_level
      ]_vars

\* ---------------------------------------------------------------- C14
\* the last handler answered connection c with this error and nothing else
OnlyError(c, text) == sent' = << [to |-> c, msg |-> [type |-> "error", message |-> text]] >>

\* room r got exactly one new entry, owned by connection c, and is otherwise
\* as it was
OneMoreIn(r, c) ==
    LET old == rooms[r].players
        new == rooms'[r].players
    IN
    /\ Len(new) = Len(old) + 1
    /\ SubSeq(new, 1, Len(old)) = old
    /\ new[Len(new)].ws = c
    /\ ~Has(old, new[Len(new)].id)
    /\ rooms' = [rooms EXCEPT ![r].players = new]

\* C14: a join_room is answered with an error, and changes no room, when the
\* code names no room ("Room not found"), when the room is started ("Game
\* already started") or when it holds 10 players ("Room is full"); every other
\* join_room adds exactly one player to that room.  No room ever holds more
\* than 10 players, and no step adds a player to a started room.
C14_JoinFailsOrAddsOne ==
    [][/\ \A c \in Conns, ci \in CodeInputs :
            (\E n \in NameInputs, r \in RandomDraws : JoinRoom(c, ci, n, r)) =>
                LET code == CodeOf(ci) IN
                IF NoToUpperCase(ci) \/ code \notin DOMAIN rooms
                THEN OnlyError(c, "Room not found") /\ rooms' = rooms
                ELSE IF rooms[code].started
                THEN OnlyError(c, "Game already started") /\ rooms' = rooms
                ELSE IF Len(rooms[code].players) >= 10
                THEN OnlyError(c, "Room is full") /\ rooms' = rooms
                ELSE OneMoreIn(code, c)
       /\ \A r \in DOMAIN rooms' : Len(rooms'[r].players) <= 10
       /\ \A r \in Staying :
            rooms[r].started => Keys(rooms'[r].players) \subseteq Keys(rooms[r].players)
      ]_vars

\* a join_room was just refused by a room that holds its 10 players
C14_Witness ==
    /\ \E r \in DOMAIN rooms : Len(rooms[r].players) = 10
    /\ \E c \in Conns :
          sent = << [to |-> c, msg |-> [type |-> "error", message |-> "Room is full"]] >>

\* ---------------------------------------------------------------- C16
\* C16: when a timer takes a room from level 20 or later to the next level,
\* the match ends: started becomes false, every player gets game_over with
\* the level_wins table, and the room stays in the registry with its level
\* (now above 20, not reset), its level_wins and its roster.  A start_game by
\* the host of such a room with all players ready starts a match at level 1,
\* sends game_start to every player and keeps every level_wins value.
C16_GameOverKeepsTheRoom ==
    [][/\ TimerFires =>
            \A r \in DOMAIN rooms :
                (rooms[r].current_level >= 20 /\ (r \in DOMAIN rooms' => rooms'[r] # rooms[r])) =>
                    /\ r \in DOMAIN rooms'
                    /\ ~rooms'[r].started
                    /\ rooms'[r].current_level = rooms[r].current_level + 1
                    /\ rooms'[r].level_wins = rooms[r].level_wins
                    /\ Keys(rooms'[r].players) = Keys(rooms[r].players)
                    /\ \A k \in 1 .. Len(rooms'[r].players) :
                          conn[rooms'[r].players[k].ws].state = "open" =>
                              \E i \in 1 .. Len(sent') :
                                  /\ sent'[i].to = rooms'[r].players[k].ws
                                  /\ sent'[i].msg.type = "game_over"
                                  /\ sent'[i].msg.level_wins = rooms[r].level_wins
                    /\ \A i \in 1 .. Len(sent') : sent'[i].msg.type = "game_over"
       /\ \A c \in Conns :
            (/\ Bound(c)
             /\ StartGame(c)
             /\ rooms[conn[c].playerRoomCode].current_level > 20
             /\ ~rooms[conn[c].playerRoomCode].started
             /\ conn[c].playerId = rooms[conn[c].playerRoomCode].host
             /\ Cardinality(rooms[conn[c].playerRoomCode].ready_players)
                   = Len(rooms[conn[c].playerRoomCode].players)) =>
                LET code == conn[c].playerRoomCode IN
                /\ rooms'[code].started
                /\ rooms'[code].current_level = 1
                /\ StartMessagesOwed(rooms'[code].players)
                /\ \A id \in DOMAIN rooms[code].level_wins :
                      /\ id \in DOMAIN rooms'[code].level_wins
                      /\ rooms'[code].level_wins[id] = rooms[code].level_wins[id]
      ]_vars

\* a match that ended was started again: level 1, and a player still has the
\* wins of the twenty levels before
C16_Witness ==
    \E r \in DOMAIN rooms :
        /\ rooms[r].started
        /\ rooms[r].current_level = 1
        /\ \E id \in DOMAIN rooms[r].level_wins : rooms[r].level_wins[id] >= 20
        /\ sent # << >>
        /\ \A i \in 1 .. Len(sent) : sent[i].msg.type = "game_start"

\* ---------------------------------------------------------------- C17
\* C17: a revive_player of a session bound to an existing room changes no
\* state and sends nothing unless the target has a death placeholder in that
\* room; a revive that succeeds leaves the target without placeholder and
\* alive, and every player of the room gets player_revived with the position
\* that was recorded when the target died.
C17_ReviveNeedsPlaceholder ==
    [][\A c \in Conns, t \in TargetInputs :
         (Bound(c) /\ RevivePlayer(c, t)) =>
            LET code == conn[c].playerRoomCode
                room == rooms[code]
            IN
            IF t \notin DOMAIN room.death_placeholders
            THEN /\ sent' = << >>
                 /\ UNCHANGED <<rooms, conn, timers, crashed, levelCalls>>
            ELSE ~crashed' =>
                 /\ t \notin DOMAIN rooms'[code].death_placeholders
                 /\ Has(rooms'[code].players, t)
                 /\ Entry(rooms'[code].players, t).alive
                 /\ \A k \in 1 .. Len(rooms'[code].players) :
                       conn[rooms'[code].players[k].ws].state = "open" =>
                           \E i \in 1 .. Len(sent') :
                               /\ sent'[i].to = rooms'[code].players[k].ws
                               /\ sent'[i].msg =
                                     [type |-> "player_revived", revived_id |-> t,
                                      reviver_id |-> conn[c].playerId,
                                      x |-> room.death_placeholders[t].x,
                                      y |-> room.death_placeholders[t].y]
      ]_vars

\* ---------------------------------------------------------------- C15
\* the k-th id the claim gives to a requested name: name, name1, name2, ...
Candidate(name, k) == IF k = 0 THEN name ELSE name \o ToString(k)

\* the non-empty player names of the specifications
AllNames == NameInputs \cup ObjectNames \cup ProtoNames

\* C15: a join_room that succeeds with requested name n gives the new player
\* the first of n, n1, n2, ... that is no player id of the room yet (so the
\* ids of successive joins under one name are distinct and come in this
\* order); the joiner gets room_joined with that id and every other player
\* gets player_joined for it.
C15_JoinedIdIsFirstUnused ==
    [][\A c \in Conns, ci \in CodeInputs, n \in AllNames :
         LET code == CodeOf(ci) IN
         (/\ \E r \in RandomDraws : JoinRoom(c, ci, n, r)
          /\ ~NoToUpperCase(ci)
          /\ code \in DOMAIN rooms
          /\ ~rooms[code].started
          /\ Len(rooms[code].players) < 10) =>
            LET old == rooms[code].players
                new == rooms'[code].players
            IN
            \E k \in 0 .. 10 :
                /\ \A j \in 0 .. k - 1 : Has(old, Candidate(n, j))
                /\ ~Has(old, Candidate(n, k))
                /\ Keys(new) = Keys(old) \cup {Candidate(n, k)}
                /\ Entry(new, Candidate(n, k)).ws = c
                /\ \E i \in 1 .. Len(sent') :
                      /\ sent'[i].to = c
                      /\ sent'[i].msg.type = "room_joined"
                      /\ sent'[i].msg.player_id = Candidate(n, k)
                /\ \A p \in 1 .. Len(old) :
                      (old[p].ws # c /\ conn[old[p].ws].state = "open") =>
                          \E i \in 1 .. Len(sent') :
                              /\ sent'[i].to = old[p].ws
                              /\ sent'[i].msg.type = "player_joined"
                              /\ sent'[i].msg.player_id = Candidate(n, k)
      ]_vars

\* ---------------------------------------------------------------- C18
\* C18: right after a start_game that passes the host test and the ready
\* test, every player of the room is alive, finished_players and
\* death_placeholders are empty, and level_wins has an entry for every
\* player: the value it had, or 0 for a player that had none.
C18_StartResetsTheRoom ==
    [][\A c \in Conns :
         (/\ Bound(c)
          /\ StartGame(c)
          /\ conn[c].playerId = rooms[conn[c].playerRoomCode].host
          /\ ~(Cardinality(rooms[conn[c].playerRoomCode].ready_players)
                  < Len(rooms[conn[c].playerRoomCode].players))) =>
            LET old == rooms[conn[c].playerRoomCode]
                new == rooms'[conn[c].playerRoomCode]
            IN
            /\ new.started
            /\ \A k \in 1 .. Len(new.players) : new.players[k].alive
            /\ new.finished_players = {}
            /\ DOMAIN new.death_placeholders = {}
            /\ \A id \in Keys(new.players) :
                  /\ id \in DOMAIN new.level_wins
                  /\ id \in DOMAIN old.level_wins => new.level_wins[id] = old.level_wins[id]
                  /\ id \notin DOMAIN old.level_wins => new.level_wins[id] = 0
      ]_vars
====
